---- MODULE Spec2Model ----
(***************************************************************************)
(* Model of progetto/secure_password_generator.py: the pool builder, the   *)
(* password generator and the command line entry point.                    *)
(*                                                                         *)
(* A character is its code point (ord), a string is a sequence of code     *)
(* points.  A call that raises ValueError returns a record with ok = FALSE *)
(* and the kind of message in err; a call that returns has ok = TRUE and   *)
(* the value in val.                                                       *)
(***************************************************************************)
EXTENDS Integers, Sequences, FiniteSets, TLC

VARIABLES
    op,         \* the API function the caller invoked ("none" before the call)
    arg,        \* the arguments of that call
    ret,        \* what the call returned or raised
    locals,     \* the names of generate_password's locals bound so far
    draws,      \* how many secure random draws generate_password has consumed
    pc,         \* main: "start", "loop", "returned" or "exit2"
    args,       \* main: the parsed argparse namespace
    level,      \* main: the level of the root logger
    log,        \* main: the log records emitted so far
    idx,        \* main: the number of loop iterations completed
    pool_size,  \* main: len(build_full_pool(policy))
    stderr      \* main: what parser.error wrote to the diagnostic stream

vars == <<op, arg, ret, locals, draws, pc, args, level, log, idx, pool_size, stderr>>

apiVars == <<op, arg, ret, locals, draws>>
mainVars == <<pc, args, level, log, idx, pool_size, stderr>>

----------------------------------------------------------------------------
(* Bounds of the model *)

\* the largest length handed to generate_password and to --length
MaxLen == 4
\* the largest --count
MaxCount == 2
\* outcomes of one secure draw over n items: the first DrawScope indices and the last
DrawScope == 1

----------------------------------------------------------------------------
(* Constants of the program *)

MIN_PASSWORD_LENGTH == 4

Range(lo, hi) == [i \in 1..(hi - lo + 1) |-> lo + i - 1]

\* string.ascii_lowercase "a".."z"
ascii_lowercase == Range(97, 122)
\* string.ascii_uppercase "A".."Z"
ascii_uppercase == Range(65, 90)
\* string.digits "0".."9"
digits == Range(48, 57)
\* string.punctuation  !"#$%&'()*+,-./  :;<=>?@  [\]^_`  {|}~
DEFAULT_SYMBOLS == Range(33, 47) \o Range(58, 64) \o Range(91, 96) \o Range(123, 126)

\* set("Il1O0o|`~'\" ")
AMBIGUOUS == {73, 108, 49, 79, 48, 111, 124, 96, 126, 39, 34, 32}

NoCategorySelectedError == "Nessuna categoria selezionata"
EmptyCategoryError == "Le opzioni scelte hanno svuotato una categoria"
LengthTooShortError == "La lunghezza minima consigliata"

Return(v) == [ok |-> TRUE, val |-> v, err |-> ""]
Raise(e) == [ok |-> FALSE, val |-> <<>>, err |-> e]

\* PasswordPolicy: every combination of the five fields can be constructed
Policies ==
    [use_lower : BOOLEAN, use_upper : BOOLEAN, use_digits : BOOLEAN,
     use_symbols : BOOLEAN, allow_ambiguous : BOOLEAN]

----------------------------------------------------------------------------
(* Pool builder *)

FilterIgnoresFlag(chars, allow_ambiguous) == chars

_filter_ambiguous(chars, allow_ambiguous) ==
    IF allow_ambiguous
    THEN chars
    ELSE SelectSeq(chars, LAMBDA ch : ch \notin AMBIGUOUS)

_non_empty_or_raise(cats) ==
    IF \E i \in 1..Len(cats) : Len(cats[i]) = 0
    THEN Raise(EmptyCategoryError)
    ELSE Return(<<>>)

\* the four "if policy.use_x: append(_filter_ambiguous(...))" statements
EnabledCategories(policy) ==
    (IF policy.use_lower
     THEN <<_filter_ambiguous(ascii_lowercase, policy.allow_ambiguous)>> ELSE <<>>)
    \o (IF policy.use_upper
        THEN <<_filter_ambiguous(ascii_uppercase, policy.allow_ambiguous)>> ELSE <<>>)
    \o (IF policy.use_digits
        THEN <<_filter_ambiguous(digits, policy.allow_ambiguous)>> ELSE <<>>)
    \o (IF policy.use_symbols
        THEN <<_filter_ambiguous(DEFAULT_SYMBOLS, policy.allow_ambiguous)>> ELSE <<>>)

\* "".join(parts)
RECURSIVE join(_)
join(parts) == IF parts = <<>> THEN <<>> ELSE Head(parts) \o join(Tail(parts))

\* set(pool)
set(s) == {s[i] : i \in 1..Len(s)}

\* the least element of a non-empty set of code points
least(S) == CHOOSE x \in S : \A y \in S : x <= y

\* sorted(S): ascending by code point
RECURSIVE sorted(_)
sorted(S) == IF S = {} THEN <<>> ELSE <<least(S)>> \o sorted(S \ {least(S)})

JoinedUnsorted(pool) == pool

\* "".join(sorted(set(pool)))
canonical(pool) == sorted(set(pool))

BuildFullPoolWrongMessage(policy) ==
    LET parts == EnabledCategories(policy)
    IN  IF Len(parts) = 0 THEN Raise(EmptyCategoryError)
        ELSE Return(sorted(set(join(parts))))

build_full_pool(policy) ==
    LET parts == EnabledCategories(policy)
        chk == _non_empty_or_raise(parts)
    IN  IF Len(parts) = 0 THEN Raise(NoCategorySelectedError)
        ELSE IF ~chk.ok THEN chk
        ELSE Return(canonical(join(parts)))

_category_pools(policy) ==
    LET cats == EnabledCategories(policy)
        chk == _non_empty_or_raise(cats)
    IN  IF ~chk.ok THEN chk ELSE Return(cats)

_require_min_length(length) ==
    IF length < MIN_PASSWORD_LENGTH THEN Raise(LengthTooShortError) ELSE Return(<<>>)

----------------------------------------------------------------------------
(* Secure randomness *)

\* What one draw of the secure source can be told to yield.  Selector s < DrawScope
\* stands for the outcome "index s" (the last index when there are fewer items), and
\* selector DrawScope for the outcome "the last index".
Sel == 0..DrawScope

Min(a, b) == IF a <= b THEN a ELSE b
Max(a, b) == IF a >= b THEN a ELSE b

\* secrets.randbelow(n) for the outcome s, 0 <= result < n
randbelow(n, s) == IF s = DrawScope THEN n - 1 ELSE Min(s, n - 1)

\* secrets.choice(seq) for the outcome s
secrets_choice(seq, s) == seq[randbelow(Len(seq), s) + 1]

\* _RNG.shuffle(x) for the outcome perm: any permutation of the positions
shuffle(x, perm) == [i \in 1..Len(x) |-> x[perm[i]]]

\* the outcomes of n draws followed by one shuffle of n items
RngOutcomes(n) == [choice : [1..n -> Sel], perm : Permutations(1..n)]

----------------------------------------------------------------------------
(* Password generator *)

SetupChecksLengthLast(length, policy) ==
    LET chk == _require_min_length(length)
        cr == _category_pools(policy)
        fr == build_full_pool(policy)
    IN  IF ~cr.ok THEN [ret |-> cr, bound |-> {}, cats |-> <<>>, full_pool |-> <<>>]
        ELSE IF ~fr.ok
             THEN [ret |-> fr, bound |-> {"cats"}, cats |-> cr.val, full_pool |-> <<>>]
        ELSE [ret |-> chk, bound |-> {"cats", "full_pool"},
              cats |-> cr.val, full_pool |-> fr.val]

\* generate_password up to "full_pool = build_full_pool(policy)": the error raised
\* on the way, if any, and the local names bound (with their values) when it is
\* raised or when the draws start
generate_password_setup(length, policy) ==
    LET chk == _require_min_length(length)
        cr == _category_pools(policy)
        fr == build_full_pool(policy)
    IN  IF ~chk.ok THEN [ret |-> chk, bound |-> {}, cats |-> <<>>, full_pool |-> <<>>]
        ELSE IF ~cr.ok THEN [ret |-> cr, bound |-> {}, cats |-> <<>>, full_pool |-> <<>>]
        ELSE IF ~fr.ok
             THEN [ret |-> fr, bound |-> {"cats"}, cats |-> cr.val, full_pool |-> <<>>]
        ELSE [ret |-> Return(<<>>), bound |-> {"cats", "full_pool"},
              cats |-> cr.val, full_pool |-> fr.val]

GuaranteedFromFirst(cats, choice) ==
    [i \in 1..Len(cats) |-> secrets_choice(cats[1], choice[i])]

\* password_chars = [secrets.choice(cat) for cat in cats]
guaranteed_chars(cats, choice) ==
    [i \in 1..Len(cats) |-> secrets_choice(cats[i], choice[i])]

RemainingIsLength(length, password_chars) == length

\* remaining = length - len(password_chars)
remaining(length, password_chars) == length - Len(password_chars)

\* the number of secure draws: one per category, one per remaining position
\* (range(remaining) is empty when remaining <= 0)
n_draws(length, cats) == Len(cats) + Max(remaining(length, cats), 0)

\* generate_password from the first draw to the return, for the outcome rng
generate_password_draw(length, cats, full_pool, rng) ==
    LET guaranteed == guaranteed_chars(cats, rng.choice)
        rem == Max(remaining(length, guaranteed), 0)
        filler == [i \in 1..rem |-> secrets_choice(full_pool, rng.choice[Len(cats) + i])]
        password_chars == IF rem = 0 THEN guaranteed ELSE guaranteed \o filler
    IN  shuffle(password_chars, rng.perm)

----------------------------------------------------------------------------
(* The API, called once by a client *)

Lengths == (0 - 1)..MaxLen

\* the client's inputs are drawn here; the actions apply the functions to them
Init ==
    /\ op = "none"
    /\ arg \in [length : Lengths, policy : Policies]
    /\ ret = Return(<<>>)
    /\ locals = {}
    /\ draws = 0
    /\ pc = "start"
    /\ args = <<>>
    /\ level = "INFO"
    /\ log = <<>>
    /\ idx = 0
    /\ pool_size = 0
    /\ stderr = <<>>

CallBuildFullPool ==
    /\ op = "none"
    /\ op' = "build_full_pool"
    /\ ret' = build_full_pool(arg.policy)
    /\ UNCHANGED <<arg, locals, draws>>
    /\ UNCHANGED mainVars

CallCategoryPools ==
    /\ op = "none"
    /\ op' = "_category_pools"
    /\ ret' = _category_pools(arg.policy)
    /\ UNCHANGED <<arg, locals, draws>>
    /\ UNCHANGED mainVars

CallGeneratePassword ==
    /\ op = "none"
    /\ op' = "generate_password"
    /\ \E setup \in {generate_password_setup(arg.length, arg.policy)} :
        /\ locals' = setup.bound
        /\ IF ~setup.ret.ok
           THEN /\ ret' = setup.ret
                /\ draws' = 0
           ELSE \E n \in {n_draws(arg.length, setup.cats)} :
                    /\ draws' = n
                    /\ \E rng \in RngOutcomes(n) :
                        ret' = Return(generate_password_draw(
                                   arg.length, setup.cats, setup.full_pool, rng))
    /\ UNCHANGED arg
    /\ UNCHANGED mainVars

Next == CallBuildFullPool \/ CallCategoryPools \/ CallGeneratePassword

Spec == Init /\ [][Next]_vars

----------------------------------------------------------------------------
(* Entropy estimator *)

\* length * math.log2(pool_size) is kept as the pair <<length, pool_size>>;
\* the degenerate cases return 0.0, kept as <<0, 1>>
estimate_entropy_bits(length, pool) ==
    IF length <= 0 \/ pool <= 1 THEN <<0, 1>> ELSE <<length, pool>>

----------------------------------------------------------------------------
(* Command line *)

\* logging's numeric levels, by name
LevelNo == [DEBUG |-> 10, INFO |-> 20, ERROR |-> 40]

\* a record reaches the log when its level is at least the logger's
emit(lg, threshold, rec) ==
    IF LevelNo[rec.level] >= LevelNo[threshold] THEN Append(lg, rec) ELSE lg

RECURSIVE emit_all(_, _, _)
emit_all(lg, threshold, recs) ==
    IF recs = <<>> THEN lg
    ELSE emit_all(emit(lg, threshold, Head(recs)), threshold, Tail(recs))

Record(lvl, msg, data) == [level |-> lvl, msg |-> msg, data |-> data]

\* the characters of each category's alphabet, before any filtering
Alphabet ==
    [lower |-> set(ascii_lowercase), upper |-> set(ascii_uppercase),
     digits |-> set(digits), symbols |-> set(DEFAULT_SYMBOLS)]

\* the category whose alphabet holds a character
CategoryOf(ch) ==
    IF ch \in Alphabet.lower THEN "lower"
    ELSE IF ch \in Alphabet.upper THEN "upper"
    ELSE IF ch \in Alphabet.digits THEN "digits"
    ELSE "symbols"

\* the categories the characters of a string belong to
classes(s) == {CategoryOf(s[i]) : i \in 1..Len(s)}

\* logger.info("Password: %s", pwd): the line is kept as the length of the
\* password and the categories of its characters
PasswordLine(pwd) == Record("INFO", "Password", <<Len(pwd), classes(pwd)>>)

\* what argparse can hand to main
Argv ==
    [length : (MIN_PASSWORD_LENGTH - 1)..MaxLen, count : (0 - 1)..MaxCount,
     no_lower : BOOLEAN, no_upper : BOOLEAN, no_digits : BOOLEAN,
     no_symbols : BOOLEAN, allow_ambiguous : BOOLEAN, verbose : BOOLEAN]

\* policy = PasswordPolicy(use_lower=_bool(not args.no_lower), ...)
PolicyOf(a) ==
    [use_lower |-> ~a.no_lower, use_upper |-> ~a.no_upper,
     use_digits |-> ~a.no_digits, use_symbols |-> ~a.no_symbols,
     allow_ambiguous |-> a.allow_ambiguous]

RangeOffByOne(i, n) == i < n - 1

\* idx in range(n), for the idx the loop has reached
in_range(i, n) == i < n

EntropyAtSecond(count, i) == count = 1 /\ i = 1

\* if args.count == 1 and idx == 0
entropy_due(count, i) == count = 1 /\ i = 0

InitMain ==
    /\ op = "main"
    /\ arg = <<>>
    /\ ret = Return(<<>>)
    /\ locals = {}
    /\ draws = 0
    /\ pc = "start"
    /\ args \in Argv
    /\ level = "INFO"
    /\ log = <<>>
    /\ idx = 0
    /\ pool_size = 0
    /\ stderr = <<>>

\* except ValueError as err: logger.error(...); parser.error(str(err))
Fail(lg, threshold, err) ==
    /\ log' = emit(lg, threshold, Record("ERROR", "Errore", <<err>>))
    /\ stderr' = Append(stderr, err)
    /\ pc' = "exit2"

\* main up to the for statement
MainStart ==
    /\ pc = "start"
    /\ \E lvl \in {IF args.verbose THEN "DEBUG" ELSE level},
          full \in {build_full_pool(PolicyOf(args))} :
        LET lg0 == IF args.verbose
                   THEN emit(log, lvl, Record("DEBUG", "Modalita verbose attiva", <<>>))
                   ELSE log
        IN  /\ level' = lvl
            /\ IF ~full.ok
               THEN /\ Fail(lg0, lvl, full.err)
                    /\ UNCHANGED pool_size
               ELSE /\ pool_size' = Len(full.val)
                    /\ log' = emit_all(lg0, lvl,
                           <<Record("DEBUG", "Full pool costruito", <<Len(full.val)>>),
                             Record("INFO", "Generazione",
                                    <<args.count, args.length, Len(full.val)>>)>>)
                    /\ pc' = "loop"
                    /\ UNCHANGED stderr
    /\ UNCHANGED <<args, idx>>
    /\ UNCHANGED apiVars

\* one iteration of "for idx in range(int(args.count))"
MainIteration ==
    /\ pc = "loop"
    /\ in_range(idx, args.count)
    /\ \E setup \in {generate_password_setup(args.length, PolicyOf(args))} :
        IF ~setup.ret.ok
        THEN /\ Fail(log, level, setup.ret.err)
             /\ UNCHANGED idx
        ELSE \E n \in {n_draws(args.length, setup.cats)} :
             \E line \in {PasswordLine(generate_password_draw(
                              args.length, setup.cats, setup.full_pool, rng)) :
                          rng \in RngOutcomes(n)} :
                /\ log' = emit_all(log, level,
                       <<Record("DEBUG", "Categorie attive", <<Len(setup.cats)>>),
                         Record("DEBUG", "Full pool costruito", <<Len(setup.full_pool)>>),
                         Record("DEBUG", "Password generata",
                                <<args.length, Len(setup.cats), Len(setup.full_pool)>>),
                         line>>
                       \o (IF entropy_due(args.count, idx)
                           THEN <<Record("DEBUG", "Entropia",
                                    <<estimate_entropy_bits(line.data[1], pool_size),
                                      pool_size>>)>>
                           ELSE <<>>))
                /\ idx' = idx + 1
                /\ pc' = "loop"
                /\ UNCHANGED stderr
    /\ UNCHANGED <<args, level, pool_size>>
    /\ UNCHANGED apiVars

\* the loop is exhausted and main returns None
MainReturn ==
    /\ pc = "loop"
    /\ ~in_range(idx, args.count)
    /\ pc' = "returned"
    /\ UNCHANGED <<args, level, log, idx, pool_size, stderr>>
    /\ UNCHANGED apiVars

NextMain == MainStart \/ MainIteration \/ MainReturn

SpecMain == InitMain /\ [][NextMain]_vars

----------------------------------------------------------------------------
(* What the properties below speak of *)

CategoryNames == {"lower", "upper", "digits", "symbols"}

\* the categories a policy enables
Enabled(policy) ==
    {c \in CategoryNames :
        \/ c = "lower" /\ policy.use_lower
        \/ c = "upper" /\ policy.use_upper
        \/ c = "digits" /\ policy.use_digits
        \/ c = "symbols" /\ policy.use_symbols}

\* the characters of category c that a policy admits
Admitted(c, policy) ==
    {ch \in Alphabet[c] : policy.allow_ambiguous \/ ch \notin AMBIGUOUS}

\* build_full_pool of every policy
FullPools == {<<p, build_full_pool(p)>> : p \in Policies}
FullPoolOf(policy) == (CHOOSE t \in FullPools : t[1] = policy)[2]

\* the Password records and the Entropia records of a log
PasswordLines(lg) == SelectSeq(lg, LAMBDA r : r.msg = "Password")
EntropyLines(lg) == SelectSeq(lg, LAMBDA r : r.msg = "Entropia")

----------------------------------------------------------------------------
(* Properties of the API, checked under Spec *)

\* C1: generate_password with length >= MIN_PASSWORD_LENGTH and a policy that
\* enables a category returns a string of exactly `length` characters, each a
\* member of build_full_pool(policy), whatever the draws and the shuffle yield.
C1_LengthAndCharset ==
    (op = "generate_password" /\ arg.length >= MIN_PASSWORD_LENGTH
        /\ Enabled(arg.policy) # {})
    => /\ ret.ok
       /\ Len(ret.val) = arg.length
       /\ LET pool == FullPoolOf(arg.policy)
          IN  pool.ok /\ set(ret.val) \subseteq set(pool.val)

C1_Witness ==
    /\ op = "generate_password" /\ ret.ok
    /\ arg.length = MaxLen
    /\ Enabled(arg.policy) = {"lower", "digits"}
    /\ Len(ret.val) = MaxLen
    /\ draws = MaxLen

\* C2: under the same preconditions the returned string holds at least one
\* character of the ambiguity-filtered alphabet of every enabled category.
C2_CategoryCoverage ==
    (op = "generate_password" /\ arg.length >= MIN_PASSWORD_LENGTH
        /\ Enabled(arg.policy) # {})
    => /\ ret.ok
       /\ \A c \in Enabled(arg.policy) :
            set(ret.val) \cap Admitted(c, arg.policy) # {}

C2_Witness ==
    /\ op = "generate_password" /\ ret.ok
    /\ Enabled(arg.policy) = CategoryNames
    /\ ~arg.policy.allow_ambiguous
    /\ \A c \in CategoryNames : set(ret.val) \cap Admitted(c, arg.policy) # {}

\* C3: for a policy that enables a category, when allow_ambiguous is false no
\* character of the full pool and none of any category pool is ambiguous; when
\* it is true every ambiguous character of an enabled category's alphabet is in
\* the full pool.
C3_Ambiguity ==
    /\ (op = "build_full_pool" /\ Enabled(arg.policy) # {})
       => /\ ret.ok
          /\ ~arg.policy.allow_ambiguous => set(ret.val) \cap AMBIGUOUS = {}
          /\ arg.policy.allow_ambiguous =>
                \A c \in Enabled(arg.policy) :
                    Alphabet[c] \cap AMBIGUOUS \subseteq set(ret.val)
    /\ (op = "_category_pools" /\ Enabled(arg.policy) # {}
            /\ ~arg.policy.allow_ambiguous)
       => /\ ret.ok
          /\ \A i \in 1..Len(ret.val) : set(ret.val[i]) \cap AMBIGUOUS = {}

C3_Witness ==
    /\ op = "build_full_pool" /\ ret.ok
    /\ Enabled(arg.policy) = CategoryNames
    /\ ~arg.policy.allow_ambiguous
    /\ ret.val # <<>>
    /\ set(ret.val) \cap AMBIGUOUS = {}

\* C4: for a policy that enables a category build_full_pool returns exactly
\* the characters admitted in at least one enabled category, in strictly
\* ascending order (so none is repeated and the pool is the same for equal
\* policies).
C4_FullPoolCanonical ==
    (op = "build_full_pool" /\ Enabled(arg.policy) # {})
    => /\ ret.ok
       /\ set(ret.val) = UNION {Admitted(c, arg.policy) : c \in Enabled(arg.policy)}
       /\ \A i \in 1..(Len(ret.val) - 1) : ret.val[i] < ret.val[i + 1]

C4_Witness ==
    /\ op = "build_full_pool" /\ ret.ok
    /\ Enabled(arg.policy) = {"lower", "upper"}
    /\ arg.policy.allow_ambiguous
    /\ Len(ret.val) = Len(ascii_lowercase) + Len(ascii_uppercase)
    /\ ret.val[1] = ascii_uppercase[1]

\* C5: with all four use_* flags false build_full_pool raises the
\* no-category-selected error and returns no pool, and generate_password with
\* length >= MIN_PASSWORD_LENGTH raises that same error.
C5_NoCategoryRejected ==
    /\ (op = "build_full_pool" /\ Enabled(arg.policy) = {})
       => ~ret.ok /\ ret.err = NoCategorySelectedError
    /\ (op = "generate_password" /\ Enabled(arg.policy) = {}
            /\ arg.length >= MIN_PASSWORD_LENGTH)
       => ~ret.ok /\ ret.err = NoCategorySelectedError /\ draws = 0

C5_Witness ==
    /\ op = "generate_password"
    /\ Enabled(arg.policy) = {}
    /\ arg.policy.allow_ambiguous
    /\ arg.length >= MIN_PASSWORD_LENGTH
    /\ ret.err = NoCategorySelectedError

\* C6: generate_password with length < MIN_PASSWORD_LENGTH raises the
\* length-too-short error for every policy, before it has built a pool or drawn
\* a random character.
C6_TooShortRejectedFirst ==
    (op = "generate_password" /\ arg.length < MIN_PASSWORD_LENGTH)
    => /\ ~ret.ok
       /\ ret.err = LengthTooShortError
       /\ locals = {}
       /\ draws = 0

C6_Witness ==
    /\ op = "generate_password"
    /\ arg.length = MIN_PASSWORD_LENGTH - 1
    /\ Enabled(arg.policy) = {}
    /\ ret.err = LengthTooShortError

\* C10: _category_pools called with a policy that enables no category raises
\* the no-category-selected error and never returns an empty sequence of pools.
C10_CategoryPoolsRejectsNoCategory ==
    (op = "_category_pools" /\ Enabled(arg.policy) = {})
    => ~ret.ok /\ ret.err = NoCategorySelectedError

----------------------------------------------------------------------------
(* Properties of the command line, checked under SpecMain *)

\* the reasons for which validation fails: no category selected, an enabled
\* category emptied by the filter, or a length below the minimum
ValidationFails(a) ==
    \/ Enabled(PolicyOf(a)) = {}
    \/ \E c \in Enabled(PolicyOf(a)) : Admitted(c, PolicyOf(a)) = {}
    \/ a.length < MIN_PASSWORD_LENGTH

\* C7: whatever the count, the length and the flags, when validation fails for
\* one of these reasons main reports the error and exits with an error status;
\* it never returns normally.
C7_ValidationFailureExits ==
    (op = "main" /\ ValidationFails(args))
    => /\ pc # "returned"
       /\ pc = "exit2" => stderr # <<>>

\* C8: with length >= MIN_PASSWORD_LENGTH, count = n >= 0 and a category
\* enabled, main never exits with an error, every password line it emits is
\* `length` characters long and holds no character of a disabled category, and
\* when it returns it has emitted exactly n password lines.
C8_CountLengthCategories ==
    (op = "main" /\ args.length >= MIN_PASSWORD_LENGTH /\ args.count >= 0
        /\ Enabled(PolicyOf(args)) # {})
    => LET lines == PasswordLines(log)
       IN  /\ pc # "exit2"
           /\ Len(lines) <= args.count
           /\ \A i \in 1..Len(lines) :
                /\ lines[i].data[1] = args.length
                /\ lines[i].data[2] \subseteq Enabled(PolicyOf(args))
           /\ pc = "loop" => Len(lines) = idx
           /\ pc = "returned" => Len(lines) = args.count

C8_Witness ==
    /\ op = "main" /\ pc = "returned"
    /\ args.count = MaxCount
    /\ args.length = MaxLen
    /\ args.no_symbols /\ ~args.no_lower /\ ~args.no_upper /\ ~args.no_digits
    /\ Len(PasswordLines(log)) = MaxCount

\* the entropy record main emits for its arguments
EntropyRecord(a) ==
    LET size == Len(FullPoolOf(PolicyOf(a)).val)
    IN  Record("DEBUG", "Entropia", <<estimate_entropy_bits(a.length, size), size>>)

\* C9 as stated: every successful verbose run with count >= 1 emits a detail
\* line with estimate_entropy_bits(password length, full pool size).
C9_EntropyForEveryCount ==
    (op = "main" /\ pc = "returned" /\ args.verbose /\ args.count >= 1)
    => EntropyLines(log) = <<EntropyRecord(args)>>

\* C9 (amended): every successful verbose run with count = 1 emits, besides the
\* password line, one detail line with estimate_entropy_bits(password length,
\* full pool size).
C9_EntropyForSinglePassword ==
    (op = "main" /\ pc = "returned" /\ args.verbose /\ args.count = 1)
    => /\ EntropyLines(log) = <<EntropyRecord(args)>>
       /\ Len(PasswordLines(log)) = 1

C9_Witness ==
    /\ op = "main" /\ pc = "returned"
    /\ args.verbose /\ args.count = 1
    /\ args.length = MaxLen
    /\ EntropyLines(log) = <<EntropyRecord(args)>>
    /\ EntropyRecord(args).data[1][1] = MaxLen

====
